---- MODULE Spec2Model ----
(***************************************************************************)
(* A model of poaurk's asynchronous OAuth 1.0a client                      *)
(* (src/src/poaurk/oauth.py): the credential store OAuthCred, the request   *)
(* pipeline PlurkOAuth.request and the three-legged flow of PlurkOAuth.     *)
(*                                                                         *)
(* One client runs one call at a time.  A call is cut at its suspension    *)
(* points: the await of aiofiles.open ("open") and of the file's close      *)
(* ("close"), the await of session.post ("http") and the await of the user  *)
(* interaction port ("ui").  Everything the code does between two          *)
(* suspension points is one step.  The HTTP server, the transport, the file *)
(* system and the human are the environment: their answers are drawn from   *)
(* small sets.  A task suspended in session.post or in the port may be      *)
(* cancelled.                                                               *)
(*                                                                         *)
(* Inputs covered: arguments have their declared types; the values of a     *)
(* response's fields are strings (possibly empty); every base URL names a   *)
(* host.  The history variable last holds the record of the call that       *)
(* finished last and is reset when the next suspending call starts; that    *)
(* call's frame remembers in cur.after how the one before it ended.         *)
(*                                                                         *)
(* Spec is one client.  Spec2 is two clients, each constructed with its own *)
(* OAuthCred, whose tasks interleave at their suspension points: the        *)
(* variables hold the client that takes the next step, peer holds the other *)
(* one, and switch hands the turn over.  The synchronous client of          *)
(* src/poaurk/oauth.py enters with its request(), which blocks from call to *)
(* return.                                                                  *)
(***************************************************************************)
EXTENDS Naturals, Sequences, FiniteSets, TLC

VARIABLES
    cred,       \* OAuthCred: customer_key, customer_secret, token, token_secret
    base_url,   \* PlurkOAuth.base_url, fixed at construction
    pc,         \* where the running call is suspended: "idle", "open", "close",
                \* "http" or "ui"
    cur,        \* the frame of the running call
    last,       \* what the most recently finished call did and how it ended
    flow,       \* ghost: the flow-state the stored pair stands for
    me,         \* which client the variables above belong to (0: the only one)
    peer        \* the other client's cred, base_url, pc, cur, last and flow

vars == <<cred, base_url, pc, cur, last, flow, me, peer>>

-----------------------------------------------------------------------------
(* Values *)

\* Python's None.
None == "<None>"

\* Number of distinct tokens (and of secrets) the environment may hand out.
MaxTok == 2

TokenNames == <<"T1", "T2", "T3", "T4">>
SecretNames == <<"S1", "S2", "S3", "S4">>
Tokens == {TokenNames[i] : i \in 1..MaxTok}
Secrets == {SecretNames[i] : i \in 1..MaxTok}

\* Verifier codes the user interaction port (or a direct caller) may supply.
Verifiers == {"V", ""}

\* Python truthiness of an optional string.
Truthy(v) == v # None /\ v # ""

\* A dict is a function from a finite set of keys; {} and None data behave alike
\* in request() (both are falsy and both give the body {}).
EmptyDict == <<>>

dict_pop(d, k) == [x \in (DOMAIN d) \ {k} |-> d[x]]

-----------------------------------------------------------------------------
(* Exceptions *)

\* aiohttp.ClientError and the subclasses the transport raises.
ClientErrors == {"ClientResponseError", "ClientConnectionError"}

\* oauthlib.oauth1.OAuth1Error and subclasses.
OAuth1Errors == {"OAuth1Error"}

\* The typed errors of the library; all three are Exception subclasses.
PlurkOAuthError == "PlurkOAuthError"
PlurkNetworkError == "PlurkNetworkError"
PlurkAuthorizationError == "PlurkAuthorizationError"

\* _handle_request_errors: what leaves the context manager when exc is raised
\* inside it.  Every Exception subclass that is neither a ClientError nor an
\* OAuth1Error, the library's own typed errors included, takes the last branch.
handle_request_errors(exc) ==
    IF exc = None THEN None
    ELSE IF exc \in ClientErrors THEN PlurkNetworkError
    ELSE IF exc \in OAuth1Errors THEN PlurkAuthorizationError
    ELSE PlurkOAuthError

-----------------------------------------------------------------------------
(* URLs *)

\* A base URL is kept in the three parts urljoin tells apart: scheme and host,
\* the directory of its path (ending in "/") and the last path segment.
url_text(u) == u.origin \o u.dir \o u.leaf

DefaultBaseUrl == [origin |-> "https://www.plurk.com", dir |-> "/", leaf |-> ""]

\* A relative endpoint: rooted when it starts with "/".
endpoint_text(m) == IF m.rooted THEN "/" \o m.path ELSE m.path

request_token_url == [rooted |-> FALSE, path |-> "OAuth/request_token"]
authorization_url == [rooted |-> FALSE, path |-> "OAuth/authorize"]
access_token_url == [rooted |-> FALSE, path |-> "OAuth/access_token"]

\* An absolute URL of another scheme that names no host.
HostlessUrl == [scheme |-> "file", path |-> "///tmp/x"]

\* Endpoints a caller passes to request() directly.
ApiMethods == {[rooted |-> TRUE, path |-> "APP/Users/me"], HostlessUrl}

\* urllib.parse.urljoin(base, url): a url with a scheme other than the base's
\* is returned as it is; of a relative reference with a path only, a rooted
\* path replaces the base's whole path, any other replaces the base's last
\* segment.
urljoin(base, m) ==
    IF "scheme" \in DOMAIN m THEN m.scheme \o ":" \o m.path
    ELSE IF m.rooted THEN base.origin \o "/" \o m.path
    ELSE base.origin \o base.dir \o m.path

\* The default of PlurkOAuth's timeout parameter.
DefaultTimeout == 60

-----------------------------------------------------------------------------
(* Credential store and signing adapter *)

\* The clients that are constructed: PlurkOAuth(OAuthCred(key, secret), session)
\* and PlurkOAuth(OAuthCred(key, secret), session, base_url=...).
Clients ==
    {[consumer |-> [key |-> "ck", secret |-> "cs"], base_url |-> DefaultBaseUrl],
     [consumer |-> [key |-> "", secret |-> ""],
      base_url |-> [origin |-> "https://plurk.test", dir |-> "/", leaf |-> "api"]]}

\* OAuthCred(customer_key, customer_secret): token and token_secret default to None.
new_cred(consumer) ==
    [customer_key |-> consumer.key, customer_secret |-> consumer.secret,
     token |-> None, token_secret |-> None]

token_pair(c) == <<c.token, c.token_secret>>

\* OAuthCred.to_client: the signer holds the store's four fields; no verifier yet.
to_client(c) ==
    [client_key |-> c.customer_key, client_secret |-> c.customer_secret,
     resource_owner_key |-> c.token, resource_owner_secret |-> c.token_secret,
     verifier |-> None]

\* PlurkOAuth._prepare_request_data without files: the form content type and
\* the data as body.
prepare_request_data(data) ==
    [headers |-> ("Content-Type" :> "application/x-www-form-urlencoded"),
     body |-> data]

\* Mutant: the verifier is read from the data but left in it, so it is sent in
\* the body as well.
build_request_verifier_kept(c, base, m, data) ==
    LET client == to_client(c)
        has_verifier == data # EmptyDict /\ "verifier" \in DOMAIN data
        signer == IF has_verifier
                  THEN [client EXCEPT !.verifier = data["verifier"]]
                  ELSE client
        prepared == prepare_request_data(data)
    IN  [uri |-> urljoin(base, m),
         http_method |-> "POST",
         headers |-> prepared.headers,
         body |-> IF prepared.body # EmptyDict THEN prepared.body ELSE EmptyDict,
         signer |-> signer,
         timeout |-> DefaultTimeout]

\* request() up to the suspension in session.post: the signer made from the
\* store, the verifier moved out of the data into the signer, the body built
\* from what is left of the data, and the signed POST.  The signature itself is
\* oauthlib's; the descriptor keeps what it is computed from.
build_request(c, base, m, data) ==
    LET client == to_client(c)
        has_verifier == data # EmptyDict /\ "verifier" \in DOMAIN data
        signer == IF has_verifier
                  THEN [client EXCEPT !.verifier = data["verifier"]]
                  ELSE client
        rest == IF has_verifier THEN dict_pop(data, "verifier") ELSE data
        prepared == prepare_request_data(rest)
    IN  [uri |-> urljoin(base, m),
         http_method |-> "POST",
         headers |-> prepared.headers,
         body |-> IF prepared.body # EmptyDict THEN prepared.body ELSE EmptyDict,
         signer |-> signer,
         timeout |-> DefaultTimeout]

\* oauthlib's Client.sign for the requests built here (POST, HMAC-SHA1, string
\* credentials): the signature base string needs a URI with a host, and
\* ValueError is raised when there is none.
sign_raises(req) ==
    IF req.uri = HostlessUrl.scheme \o ":" \o HostlessUrl.path THEN "ValueError"
    ELSE None

\* Files a caller may hand to request(): a dict from field name to path, kept
\* as the sequence of its paths in insertion order.
MaxFiles == 2
FileNames == <<"a.png", "b.png", "c.png">>
Files == {[i \in 1..n |-> FileNames[i]] : n \in 0..MaxFiles}

\* aiofiles.open and the built-in open either return a handle on the file or
\* raise an OSError (FileNotFoundError, PermissionError).
OpenOutcomes == {None, "FileNotFoundError"}

\* Leaving "async with aiofiles.open(...) as f", normally or by an exception,
\* closes f.
close_handle(open, path) == open \ {path}

\* PlurkOAuth._prepare_request_data with files: no headers, and a FormData
\* holding one field per file and then one per data item.
prepare_request_files(data, files) ==
    [headers |-> EmptyDict, body |-> [files |-> files, fields |-> data]]

\* request() with files, from the return of _prepare_request_data to the
\* suspension in session.post.
build_upload(c, base, m, data, files) ==
    LET plain == build_request(c, base, m, data)
        has_verifier == data # EmptyDict /\ "verifier" \in DOMAIN data
        rest == IF has_verifier THEN dict_pop(data, "verifier") ELSE data
        prepared == prepare_request_files(rest, files)
    IN  [plain EXCEPT !.headers = prepared.headers, !.body = prepared.body]

-----------------------------------------------------------------------------
(* The HTTP exchange: what the environment may answer *)

JSON == "application/json"
HTML == "text/html"
FORM == "application/x-www-form-urlencoded"
PLAIN == "text/plain"

\* A body carries each of the two fields or not, the values being strings.  A
\* JSON object may carry the empty string for a field, and so may a query string.
dict_of(t, s) ==
    IF t = "absent" /\ s = "absent" THEN EmptyDict
    ELSE IF s = "absent" THEN ("oauth_token" :> t)
    ELSE IF t = "absent" THEN ("oauth_token_secret" :> s)
    ELSE ("oauth_token" :> t) @@ ("oauth_token_secret" :> s)

JsonBodies ==
    {dict_of(t, s) : t \in Tokens \cup {"absent", ""},
                     s \in Secrets \cup {"absent", ""}}

TextBodies ==
    {dict_of(t, s) : t \in Tokens \cup {"absent"}, s \in Secrets \cup {"absent"}}
    \cup {dict_of("", SecretNames[1])}

GoodBody == dict_of(TokenNames[1], SecretNames[1])

\* Answers of session.post: a response (status, declared content type, body)
\* or an exception of the transport.  asyncio.TimeoutError is what aiohttp
\* raises when ClientTimeout(total=...) expires; it is not a ClientError.
http_response(st, ct, b) == [raised |-> None, status |-> st, content_type |-> ct, body |-> b]

Responses ==
    {http_response(200, JSON, b) : b \in JsonBodies}
    \cup {http_response(200, HTML, b) : b \in TextBodies}
    \cup {http_response(200, ct, GoodBody) : ct \in {FORM, PLAIN}}
    \cup {http_response(st, HTML, GoodBody) : st \in {404, 500}}

TransportErrors == {"ClientConnectionError", "TimeoutError"}

transport_raised(e) == [raised |-> e, status |-> 0, content_type |-> None, body |-> EmptyDict]

Answers == Responses \cup {transport_raised(e) : e \in TransportErrors}

\* urllib.parse.parse_qsl with its default keep_blank_values=False, then dict():
\* fields with an empty value are dropped.
parse_qsl_dict(body) ==
    [k \in {x \in DOMAIN body : body[x] # ""} |-> body[k]]

\* Mutant: any content type that is not JSON is read as a query string.
parse_response_lenient(resp) ==
    IF resp.content_type = JSON THEN [exc |-> None, value |-> resp.body]
    ELSE [exc |-> None, value |-> parse_qsl_dict(resp.body)]

\* PlurkOAuth._parse_response: by declared content type.
parse_response(resp) ==
    IF resp.content_type = JSON THEN [exc |-> None, value |-> resp.body]
    ELSE IF resp.content_type = HTML
         THEN [exc |-> None, value |-> parse_qsl_dict(resp.body)]
    ELSE [exc |-> "TypeError", value |-> EmptyDict]

\* aiohttp's ClientResponse.raise_for_status: raises ClientResponseError when
\* the status is 400 or above.
raise_for_status(resp) == IF resp.status >= 400 THEN "ClientResponseError" ELSE None

\* request() from the return of session.post to its own return: the transport's
\* exception or raise_for_status's, else the parsed mapping; all of it inside
\* _handle_request_errors.
request_result(answer) ==
    LET raw == IF answer.raised # None
               THEN [exc |-> answer.raised, value |-> EmptyDict]
               ELSE IF raise_for_status(answer) # None
               THEN [exc |-> raise_for_status(answer), value |-> EmptyDict]
               ELSE parse_response(answer)
    IN  [exc |-> handle_request_errors(raw.exc), value |-> raw.value]

\* Mutant: the token is stored and the secret is left for later.
store_response_token_first(c, response) ==
    IF "oauth_token" \notin DOMAIN response
    THEN [cred |-> c, exc |-> "KeyError"]
    ELSE [cred |-> [c EXCEPT !.token = response["oauth_token"]], exc |-> None]

\* The two assignments that end get_request_token and get_access_token:
\*     self.cred.token = response["oauth_token"]
\*     self.cred.token_secret = response["oauth_token_secret"]
\* Each subscript raises KeyError when the field is missing; the first
\* assignment has taken effect when the second raises.
store_response(c, response) ==
    IF "oauth_token" \notin DOMAIN response
    THEN [cred |-> c, exc |-> "KeyError"]
    ELSE LET c1 == [c EXCEPT !.token = response["oauth_token"]]
         IN  IF "oauth_token_secret" \notin DOMAIN response
             THEN [cred |-> c1, exc |-> "KeyError"]
             ELSE [cred |-> [c1 EXCEPT !.token_secret = response["oauth_token_secret"]],
                   exc |-> None]

\* Mutant: the pair is not cleared before the request-token request.
clear_token_skipped(c) == c

\* get_request_token's first two statements.
clear_token(c) == [c EXCEPT !.token = None, !.token_secret = None]

\* Mutant: only None counts as "no token" (the test of the synchronous client).
get_verifier_url_none_only(c, base) ==
    IF c.token = None \/ c.token_secret = None
    THEN [exc |-> PlurkAuthorizationError, value |-> None]
    ELSE [exc |-> None,
          value |-> url_text(base) \o endpoint_text(authorization_url)
                    \o "?oauth_token=" \o c.token]

\* get_verifier_url: raises when either field is None or empty, else the
\* concatenation base_url + "OAuth/authorize" + "?oauth_token=" + token.
get_verifier_url(c, base) ==
    IF ~Truthy(c.token) \/ ~Truthy(c.token_secret)
    THEN [exc |-> PlurkAuthorizationError, value |-> None]
    ELSE [exc |-> None,
          value |-> url_text(base) \o endpoint_text(authorization_url)
                    \o "?oauth_token=" \o c.token]

-----------------------------------------------------------------------------
(* The client: calls, suspension points and returns *)

UNINITIALIZED == "UNINITIALIZED"
REQUEST_TOKEN_OBTAINED == "REQUEST_TOKEN_OBTAINED"
AUTHORIZED == "AUTHORIZED"

NoAnswer == [raised |-> None, status |-> 0, content_type |-> None, body |-> EmptyDict]

\* How the call before the running one ended.
NoneBefore == [op |-> "none", exc |-> None, raised |-> None]
before(call) == [op |-> call.op, exc |-> call.exc, raised |-> call.answer.raised]

\* The frame of a call: its arguments, the store as it was when it was called
\* (pre), the requests it has sent, the prompts it has made and the codes it
\* got back, the files it has yet to attach (todo) and the handles it holds
\* open, and the pair its own steps have left in the store (held).
NoFrame == [op |-> "none", leg |-> "none", arg |-> None, pre |-> None,
            sent |-> <<>>, asked |-> <<>>, got |-> <<>>, todo |-> <<>>,
            open |-> {}, held |-> <<None, None>>, after |-> NoneBefore]

NoCall == [op |-> "none", arg |-> None, pre |-> None, exc |-> None, value |-> None,
           sent |-> <<>>, asked |-> <<>>, got |-> <<>>, open |-> {},
           post |-> <<None, None>>, answer |-> NoAnswer]

\* The record of a call that ends: how it ended (exc is None when it returned),
\* what it returned, every request it sent, every prompt it made and code it
\* got, the handles it leaves open and the pair it leaves in the store.
finished(frame, exc, value, answer) ==
    [op |-> frame.op, arg |-> frame.arg, pre |-> frame.pre, exc |-> exc,
     value |-> value, sent |-> frame.sent, asked |-> frame.asked,
     got |-> frame.got, open |-> frame.open, post |-> frame.held,
     answer |-> answer]

\* Pairs a caller may hand to authorize(access_token).
SuppliedPairs == (Tokens \cup {""}) \X (Secrets \cup {""})

\* Data a caller may hand to request().
RequestData == {EmptyDict, ("limit" :> "1"), ("limit" :> "1") @@ ("verifier" :> "V")}

\* What a failure inside authorize() reaches its caller as: authorize wraps its
\* whole body in _handle_request_errors, around the one request() already has.
authorize_raises(exc) == handle_request_errors(exc)

\* The state of a client after PlurkOAuth(cred, session, base_url).
constructed(client) ==
    [cred |-> new_cred(client.consumer), base_url |-> client.base_url,
     pc |-> "idle", cur |-> NoFrame, last |-> NoCall, flow |-> UNINITIALIZED]

NoPeer == "none"

Init ==
    /\ \E client \in Clients :
        /\ cred = constructed(client).cred
        /\ base_url = constructed(client).base_url
    /\ pc = "idle"
    /\ cur = NoFrame
    /\ last = NoCall
    /\ flow = UNINITIALIZED
    /\ me = 0
    /\ peer = NoPeer

\* Mutant: only the token of the supplied pair is stored.
authorize_pair_token_only ==
    /\ pc = "idle"
    /\ \E pair \in SuppliedPairs :
        /\ cred' = [cred EXCEPT !.token = pair[1]]
        /\ last' = finished([NoFrame EXCEPT !.op = "authorize", !.arg = pair,
                                            !.pre = cred,
                                            !.held = token_pair(cred')],
                            None, None, NoAnswer)
    /\ flow' = AUTHORIZED
    /\ UNCHANGED <<base_url, pc, cur, me, peer>>

\* authorize((token, token_secret)): sets the pair, no await.
authorize_pair ==
    /\ pc = "idle"
    /\ \E pair \in SuppliedPairs :
        /\ cred' = [cred EXCEPT !.token = pair[1], !.token_secret = pair[2]]
        /\ last' = finished([NoFrame EXCEPT !.op = "authorize", !.arg = pair,
                                            !.pre = cred,
                                            !.held = token_pair(cred')],
                            None, None, NoAnswer)
    /\ flow' = AUTHORIZED
    /\ UNCHANGED <<base_url, pc, cur, me, peer>>

\* request() from client.sign to the suspension in session.post.  An exception
\* of sign leaves through _handle_request_errors and ends the call before
\* anything is sent.
send_request(frame, req) ==
    IF sign_raises(req) # None
    THEN /\ last' = finished(frame, handle_request_errors(sign_raises(req)),
                             None, NoAnswer)
         /\ pc' = "idle"
         /\ cur' = NoFrame
    ELSE /\ cur' = [frame EXCEPT !.sent = Append(@, req)]
         /\ pc' = "http"
         /\ last' = NoCall

\* get_request_token(), called directly or as the first leg of authorize():
\* clears the pair, then request(self._request_token_url) up to session.post.
start_request_token(op, arg) ==
    /\ pc = "idle"
    /\ cred' = clear_token(cred)
    /\ send_request([NoFrame EXCEPT !.op = op, !.leg = "request_token",
                                    !.arg = arg, !.pre = cred,
                                    !.held = token_pair(cred'),
                                    !.after = before(last)],
                    build_request(cred', base_url, request_token_url, EmptyDict))
    /\ flow' = UNINITIALIZED
    /\ UNCHANGED <<base_url, me, peer>>

get_request_token == start_request_token("get_request_token", None)

\* authorize() with no pair (None, or a falsy one such as the empty tuple):
\* _complete_oauth_flow, up to the session.post of its first leg.
authorize == start_request_token("authorize", <<>>)

\* Mutant: get_access_token clears the pair first, as get_request_token does.
get_access_token_clearing ==
    /\ pc = "idle"
    /\ cred' = clear_token(cred)
    /\ \E verifier \in Verifiers :
        send_request([NoFrame EXCEPT !.op = "get_access_token",
                                     !.leg = "access_token", !.arg = verifier,
                                     !.pre = cred, !.held = token_pair(cred'),
                                     !.after = before(last)],
                     build_request(cred', base_url, access_token_url,
                                   ("verifier" :> verifier)))
    /\ UNCHANGED <<base_url, flow, me, peer>>

\* get_access_token(verifier): request(self._access_token_url,
\* data={"verifier": verifier}) up to session.post.
get_access_token ==
    /\ pc = "idle"
    /\ \E verifier \in Verifiers :
        send_request([NoFrame EXCEPT !.op = "get_access_token",
                                     !.leg = "access_token", !.arg = verifier,
                                     !.pre = cred, !.held = token_pair(cred),
                                     !.after = before(last)],
                     build_request(cred, base_url, access_token_url,
                                   ("verifier" :> verifier)))
    /\ UNCHANGED <<cred, base_url, flow, me, peer>>

\* request(method, data, files), called directly: without files up to
\* session.post, with files up to the first aiofiles.open.
request ==
    /\ pc = "idle"
    /\ \E m \in ApiMethods, data \in RequestData, files \in Files :
        LET frame == [NoFrame EXCEPT !.op = "request", !.leg = "request",
                                     !.arg = <<m, data, files>>, !.pre = cred,
                                     !.held = token_pair(cred),
                                     !.after = before(last)]
        IN  IF files # <<>>
            THEN /\ cur' = [frame EXCEPT !.todo = files]
                 /\ pc' = "open"
                 /\ last' = NoCall
            ELSE send_request(frame, build_request(cred, base_url, m, data))
    /\ UNCHANGED <<cred, base_url, flow, me, peer>>

\* get_verifier_url(), called directly: no await.
verifier_url ==
    /\ pc = "idle"
    /\ LET r == get_verifier_url(cred, base_url)
       IN  last' = finished([NoFrame EXCEPT !.op = "get_verifier_url", !.pre = cred,
                                            !.held = token_pair(cred)],
                            r.exc, r.value, NoAnswer)
    /\ UNCHANGED <<cred, base_url, pc, cur, flow, me, peer>>

\* get_verifier(), called directly: the URL is computed first (and may raise),
\* then the call suspends in the user interaction port.
get_verifier ==
    /\ pc = "idle"
    /\ LET r == get_verifier_url(cred, base_url)
           frame == [NoFrame EXCEPT !.op = "get_verifier", !.leg = "verifier",
                                    !.pre = cred, !.held = token_pair(cred)]
       IN  IF r.exc # None
           THEN /\ last' = finished(frame, r.exc, None, NoAnswer)
                /\ UNCHANGED <<pc, cur>>
           ELSE /\ cur' = [frame EXCEPT !.asked = <<r.value>>, !.after = before(last)]
                /\ pc' = "ui"
                /\ last' = NoCall
    /\ UNCHANGED <<cred, base_url, flow, me, peer>>

\* A call that ends: its record is kept and the client is idle again.
finish_frame(frame, exc, value, answer) ==
    /\ last' = finished(frame, exc, value, answer)
    /\ pc' = "idle"
    /\ cur' = NoFrame

finish(exc, value, answer) == finish_frame(cur, exc, value, answer)

\* aiofiles.open answers inside _prepare_request_data: the file is open and is
\* added to the form, or the open raised and the call ends.
file_opened ==
    /\ pc = "open"
    /\ \E outcome \in OpenOutcomes :
        IF outcome # None
        THEN finish(handle_request_errors(outcome), None, NoAnswer)
        ELSE /\ cur' = [cur EXCEPT !.open = @ \cup {Head(cur.todo)}]
             /\ pc' = "close"
             /\ UNCHANGED last
    /\ UNCHANGED <<cred, base_url, flow, me, peer>>

\* The with block of one file is left: the file is closed; then the next file
\* is opened or, after the last one, the data fields are added and the request
\* is signed and sent.
file_closed ==
    /\ pc = "close"
    /\ LET frame == [cur EXCEPT !.open = close_handle(@, Head(cur.todo)),
                                !.todo = Tail(@)]
       IN  IF frame.todo # <<>>
           THEN /\ cur' = frame
                /\ pc' = "open"
                /\ UNCHANGED last
           ELSE send_request(frame, build_upload(cred, base_url, cur.arg[1],
                                                 cur.arg[2], cur.arg[3]))
    /\ UNCHANGED <<cred, base_url, flow, me, peer>>

\* Mutant: request() stores a token pair it finds in the response.
request_returns_storing ==
    /\ pc = "http"
    /\ cur.leg = "request"
    /\ \E answer \in Answers :
        LET r == request_result(answer)
        IN  /\ cred' = IF r.exc = None THEN store_response(cred, r.value).cred
                       ELSE cred
            /\ finish(r.exc, IF r.exc = None THEN r.value ELSE None, answer)
    /\ UNCHANGED <<base_url, flow, me, peer>>

\* session.post answers a direct request() call.
request_returns ==
    /\ pc = "http"
    /\ cur.leg = "request"
    /\ \E answer \in Answers :
        LET r == request_result(answer)
        IN  finish(r.exc, IF r.exc = None THEN r.value ELSE None, answer)
    /\ UNCHANGED <<cred, base_url, flow, me, peer>>

\* get_verifier() inside authorize(), once the request token is stored; then
\* the suspension in the user interaction port.
authorize_get_verifier(c, answer) ==
    LET r == get_verifier_url(c, base_url)
        frame == [cur EXCEPT !.held = token_pair(c)]
    IN  IF r.exc # None
        THEN finish_frame(frame, authorize_raises(r.exc), None, answer)
        ELSE /\ cur' = [frame EXCEPT !.leg = "verifier", !.asked = Append(@, r.value)]
             /\ pc' = "ui"
             /\ UNCHANGED last

\* session.post answers the request-token request: get_request_token() from
\* the return of request() on, and, inside authorize(), on into get_verifier().
request_token_returns ==
    /\ pc = "http"
    /\ cur.leg = "request_token"
    /\ \E answer \in Answers :
        LET r == request_result(answer)
            st == store_response(cred, r.value)
            stored == [cur EXCEPT !.held = token_pair(st.cred)]
            wrap(exc) == IF cur.op = "authorize" THEN authorize_raises(exc) ELSE exc
        IN  IF r.exc # None
            THEN /\ finish(wrap(r.exc), None, answer)
                 /\ UNCHANGED <<cred, flow>>
            ELSE IF st.exc # None
            THEN /\ cred' = st.cred
                 /\ finish_frame(stored, wrap(st.exc), None, answer)
                 /\ UNCHANGED flow
            ELSE /\ cred' = st.cred
                 /\ flow' = REQUEST_TOKEN_OBTAINED
                 /\ IF cur.op = "authorize"
                    THEN authorize_get_verifier(st.cred, answer)
                    ELSE finish_frame(stored, None, None, answer)
    /\ UNCHANGED <<base_url, me, peer>>

\* Mutant: a failed access-token exchange rolls the store back to empty.
access_token_returns_rollback ==
    /\ pc = "http"
    /\ cur.leg = "access_token"
    /\ \E answer \in Answers :
        LET r == request_result(answer)
            st == store_response(cred, r.value)
            stored == [cur EXCEPT !.held = token_pair(st.cred)]
            wrap(exc) == IF cur.op = "authorize" THEN authorize_raises(exc) ELSE exc
        IN  IF r.exc # None
            THEN /\ cred' = clear_token(cred)
                 /\ finish(wrap(r.exc), None, answer)
                 /\ UNCHANGED flow
            ELSE IF st.exc # None
            THEN /\ cred' = st.cred
                 /\ finish_frame(stored, wrap(st.exc), None, answer)
                 /\ UNCHANGED flow
            ELSE /\ cred' = st.cred
                 /\ flow' = AUTHORIZED
                 /\ finish_frame(stored, None, None, answer)
    /\ UNCHANGED <<base_url, me, peer>>

\* session.post answers the access-token request: get_access_token() from the
\* return of request() on; it is also the end of authorize().
access_token_returns ==
    /\ pc = "http"
    /\ cur.leg = "access_token"
    /\ \E answer \in Answers :
        LET r == request_result(answer)
            st == store_response(cred, r.value)
            stored == [cur EXCEPT !.held = token_pair(st.cred)]
            wrap(exc) == IF cur.op = "authorize" THEN authorize_raises(exc) ELSE exc
        IN  IF r.exc # None
            THEN /\ finish(wrap(r.exc), None, answer)
                 /\ UNCHANGED <<cred, flow>>
            ELSE IF st.exc # None
            THEN /\ cred' = st.cred
                 /\ finish_frame(stored, wrap(st.exc), None, answer)
                 /\ UNCHANGED flow
            ELSE /\ cred' = st.cred
                 /\ flow' = AUTHORIZED
                 /\ finish_frame(stored, None, None, answer)
    /\ UNCHANGED <<base_url, me, peer>>

\* The user interaction port returns a code to a direct get_verifier() call.
get_verifier_returns ==
    /\ pc = "ui"
    /\ cur.op = "get_verifier"
    /\ \E code \in Verifiers :
        finish_frame([cur EXCEPT !.got = Append(@, code)], None, code, NoAnswer)
    /\ UNCHANGED <<cred, base_url, flow, me, peer>>

\* Mutant: the access-token exchange does not use the code the port returned.
authorize_verifier_returns_stale ==
    /\ pc = "ui"
    /\ cur.op = "authorize"
    /\ \E code \in Verifiers :
        send_request([cur EXCEPT !.leg = "access_token", !.got = Append(@, code)],
                     build_request(cred, base_url, access_token_url,
                                   ("verifier" :> "V")))
    /\ UNCHANGED <<cred, base_url, flow, me, peer>>

\* The user interaction port returns a code inside authorize():
\* get_access_token(verifier) starts, up to session.post.
authorize_verifier_returns ==
    /\ pc = "ui"
    /\ cur.op = "authorize"
    /\ \E code \in Verifiers :
        send_request([cur EXCEPT !.leg = "access_token", !.got = Append(@, code)],
                     build_request(cred, base_url, access_token_url,
                                   ("verifier" :> code)))
    /\ UNCHANGED <<cred, base_url, flow, me, peer>>

\* The task is cancelled while it is suspended in session.post or in the user
\* interaction port: asyncio.CancelledError is raised at the await.  It is a
\* BaseException, so no "except Exception" of _handle_request_errors catches
\* it and it leaves the call as it is.
Cancelled == [raised |-> "CancelledError", status |-> 0, content_type |-> None,
              body |-> EmptyDict]

\* Mutant: a cancelled call empties the store on its way out.
cancel_clearing ==
    /\ pc \in {"http", "ui"}
    /\ cred' = clear_token(cred)
    /\ finish("CancelledError", None, Cancelled)
    /\ UNCHANGED <<base_url, flow, me, peer>>

cancel ==
    /\ pc \in {"http", "ui"}
    /\ finish("CancelledError", None, Cancelled)
    /\ UNCHANGED <<cred, base_url, flow, me, peer>>

\* What requests.post does in the synchronous request(): it raises (the
\* signing hook's ValueError, requests' ConnectionError) or returns a response.
SyncPosts ==
    {transport_raised("ValueError"), transport_raised("ConnectionError"),
     http_response(200, JSON, GoodBody), http_response(404, HTML, GoodBody)}

\* The synchronous request(url, data, files): every path is opened with open()
\* in a loop, requests.post is called, the handles are closed in a second
\* loop, and raise_for_status comes last.  failing is the position of the
\* first file whose open raises (0: none does).  Gives the exception that
\* leaves the call and the handles that are open when it ends.
sync_request_result(files, failing, post) ==
    IF failing # 0
    THEN [exc |-> "FileNotFoundError", open |-> {files[i] : i \in 1..(failing - 1)}]
    ELSE IF post.raised # None
    THEN [exc |-> post.raised, open |-> {files[i] : i \in 1..Len(files)}]
    ELSE [exc |-> IF post.status >= 400 THEN "HTTPError" ELSE None, open |-> {}]

\* request() of the synchronous client: a blocking call, one step.
sync_request ==
    /\ pc = "idle"
    /\ \E files \in Files, failing \in 0..MaxFiles, post \in SyncPosts :
        /\ failing <= Len(files)
        /\ LET r == sync_request_result(files, failing, post)
           IN  last' = finished([NoFrame EXCEPT !.op = "sync_request",
                                                !.arg = files, !.open = r.open,
                                                !.held = token_pair(cred)],
                                r.exc, None, post)
    /\ UNCHANGED <<cred, base_url, pc, cur, flow, me, peer>>

Next ==
    \/ authorize_pair
    \/ get_request_token
    \/ authorize
    \/ get_access_token
    \/ request
    \/ verifier_url
    \/ get_verifier
    \/ file_opened
    \/ file_closed
    \/ request_returns
    \/ request_token_returns
    \/ access_token_returns
    \/ get_verifier_returns
    \/ authorize_verifier_returns
    \/ cancel
    \/ sync_request

Spec == Init /\ [][Next]_vars

-----------------------------------------------------------------------------
(* Two clients *)

\* Two PlurkOAuth instances, each constructed with its own OAuthCred
\* (self.cred = cred).  The first one takes the first step.
Init2 ==
    /\ \E mine \in Clients :
       \E theirs \in Clients \ {mine} :
        /\ cred = constructed(mine).cred
        /\ base_url = constructed(mine).base_url
        /\ peer = constructed(theirs)
    /\ pc = "idle"
    /\ cur = NoFrame
    /\ last = NoCall
    /\ flow = UNINITIALIZED
    /\ me = 1

\* Mutant: both clients were constructed with the same OAuthCred object.
switch_sharing_store ==
    /\ me # 0
    /\ cred' = cred
    /\ base_url' = peer.base_url
    /\ pc' = peer.pc
    /\ cur' = peer.cur
    /\ last' = peer.last
    /\ flow' = peer.flow
    /\ peer' = [cred |-> cred, base_url |-> base_url, pc |-> pc, cur |-> cur,
                last |-> last, flow |-> flow]
    /\ me' = 3 - me

\* The event loop runs the other client's task next: every attribute read
\* from now on is the other instance's, the store included.
switch ==
    /\ me # 0
    /\ cred' = peer.cred
    /\ base_url' = peer.base_url
    /\ pc' = peer.pc
    /\ cur' = peer.cur
    /\ last' = peer.last
    /\ flow' = peer.flow
    /\ peer' = [cred |-> cred, base_url |-> base_url, pc |-> pc, cur |-> cur,
                last |-> last, flow |-> flow]
    /\ me' = 3 - me

\* What the environment answers in the runs of two clients: a pair in either
\* format or a refusal; the one code "V".
Answers2 ==
    {http_response(200, JSON, dict_of(TokenNames[1], SecretNames[1])),
     http_response(200, HTML, dict_of(TokenNames[2], SecretNames[2])),
     http_response(404, HTML, GoodBody),
     NoAnswer, Cancelled}

Inputs2 ==
    /\ last'.answer \in Answers2
    /\ last'.op = "get_access_token" => last'.arg = "V"
    /\ cur'.op = "get_access_token" => cur'.arg = "V"
    /\ \A i \in 1..Len(cur'.got) : cur'.got[i] = "V"
    /\ \A i \in 1..Len(last'.got) : last'.got[i] = "V"
    /\ token_pair(cred') \in {<<None, None>>,
                              <<TokenNames[1], SecretNames[1]>>,
                              <<TokenNames[2], SecretNames[2]>>}

\* The flows of the two clients, interleaved at their suspension points.
Next2 ==
    \/ get_request_token /\ Inputs2
    \/ authorize /\ Inputs2
    \/ get_access_token /\ Inputs2
    \/ request_token_returns /\ Inputs2
    \/ access_token_returns /\ Inputs2
    \/ authorize_verifier_returns /\ Inputs2
    \/ cancel /\ Inputs2
    \/ switch

Spec2 == Init2 /\ [][Next2]_vars

-----------------------------------------------------------------------------
(* The command-line user interaction *)

\* Rounds of (code, confirmation) one call of get_verification_code is
\* followed through.
MaxRounds == 2

\* What the person types at "Input the verification number: " and at
\* "Are you sure? (y/n) ".
TypedCodes == {"V", "W", ""}
TypedConfirmations == {"y", "Y", "n", "N", "x"}

\* str.lower on the confirmations typed.
lower(text) == IF text = "Y" THEN "y" ELSE IF text = "N" THEN "n" ELSE text

Banner == "Open the following URL and authorize it."
CodePrompt == "Input the verification number: "
ConfirmPrompt == "Are you sure? (y/n) "
Reminder == "Please answer 'y' or 'n'"

\* URLs get_verifier may pass to the port.
CliUrls ==
    {get_verifier_url([new_cred(client.consumer) EXCEPT !.token = TokenNames[1],
                                                        !.token_secret = SecretNames[1]],
                      client.base_url).value : client \in Clients}

\* CliUserInteraction.get_verification_code(url) up to its first await: the
\* two prints and the first prompt for a code.  asked is what has been
\* written to the terminal, got what has been typed.
cli_get_verification_code ==
    /\ pc = "idle"
    /\ \E url \in CliUrls :
        cur' = [NoFrame EXCEPT !.op = "get_verification_code", !.leg = "cli",
                               !.arg = url, !.pre = cred,
                               !.held = token_pair(cred),
                               !.asked = <<Banner, url, CodePrompt>>]
    /\ pc' = "code"
    /\ last' = NoCall
    /\ UNCHANGED <<cred, base_url, flow, me, peer>>

\* input() returns the code typed; the prompt for the confirmation follows.
cli_code_typed ==
    /\ pc = "code"
    /\ Len(cur.got) < 2 * MaxRounds
    /\ \E verifier \in TypedCodes :
        cur' = [cur EXCEPT !.got = Append(@, verifier),
                           !.asked = Append(@, ConfirmPrompt)]
    /\ pc' = "confirm"
    /\ UNCHANGED <<cred, base_url, last, flow, me, peer>>

\* Mutant: the loop of the synchronous client, left on any confirmation but
\* "n".
cli_confirmation_typed_unless_n ==
    /\ pc = "confirm"
    /\ \E verified \in TypedConfirmations :
        LET verifier == cur.got[Len(cur.got)]
            frame == [cur EXCEPT !.got = Append(@, verified)]
        IN  IF lower(verified) # "n"
            THEN finish_frame(frame, None, verifier, NoAnswer)
            ELSE /\ cur' = [frame EXCEPT !.asked = Append(@, CodePrompt)]
                 /\ pc' = "code"
                 /\ UNCHANGED last
    /\ UNCHANGED <<cred, base_url, flow, me, peer>>

\* input() returns the confirmation typed: the call returns the code of this
\* round when the confirmation is "y" in any case and the code is not empty;
\* else the reminder is printed unless the confirmation is "n", and the next
\* round starts with the prompt for a code.
cli_confirmation_typed ==
    /\ pc = "confirm"
    /\ \E verified \in TypedConfirmations :
        LET verifier == cur.got[Len(cur.got)]
            frame == [cur EXCEPT !.got = Append(@, verified)]
        IN  IF lower(verified) = "y" /\ verifier # ""
            THEN finish_frame(frame, None, verifier, NoAnswer)
            ELSE /\ cur' = [frame EXCEPT !.asked =
                                IF lower(verified) # "n"
                                THEN @ \o <<Reminder, CodePrompt>>
                                ELSE Append(@, CodePrompt)]
                 /\ pc' = "code"
                 /\ UNCHANGED last
    /\ UNCHANGED <<cred, base_url, flow, me, peer>>

Next3 ==
    \/ cli_get_verification_code
    \/ cli_code_typed
    \/ cli_confirmation_typed

Spec3 == Init /\ [][Next3]_vars

-----------------------------------------------------------------------------
(* Two tasks on one store *)

\* One client, two tasks that call it.  peer holds the frame and the record
\* of the task that is not running; the store, the base URL and the flow
\* state are the client's and are shared.
Init4 ==
    /\ \E client \in {c \in Clients : c.base_url = DefaultBaseUrl} :
        /\ cred = constructed(client).cred
        /\ base_url = constructed(client).base_url
        /\ peer = constructed(client)
    /\ pc = "idle"
    /\ cur = NoFrame
    /\ last = NoCall
    /\ flow = UNINITIALIZED
    /\ me = 1

\* The event loop runs the other task next: it goes on with its own frame on
\* the same self.cred.
switch_task ==
    /\ me # 0
    /\ pc' = peer.pc
    /\ cur' = peer.cur
    /\ last' = peer.last
    /\ peer' = [peer EXCEPT !.pc = pc, !.cur = cur, !.last = last]
    /\ me' = 3 - me
    /\ UNCHANGED <<cred, base_url, flow>>

\* The pairs of the responses in the runs of two tasks, and the pair handed
\* to authorize(pair).
ResponsePairs4 ==
    {<<TokenNames[1], SecretNames[1]>>, <<TokenNames[2], SecretNames[2]>>}

SuppliedPair4 == <<"", "">>

\* What the environment answers in the runs of two tasks: every response with
\* carries both fields; else the connection fails.
Answers4 ==
    {http_response(200, JSON, dict_of(TokenNames[1], SecretNames[1])),
     http_response(200, HTML, dict_of(TokenNames[2], SecretNames[2])),
     NoAnswer}

\* The step's inputs are among those: the answer of a call that ended, the
\* pair of the request-token response inside authorize() (the answer is not
\* kept when the call goes on to the prompt), the code, the supplied pair.
\* The first task makes any of the calls, the second one the two token
\* exchanges.
Inputs4 ==
    /\ last'.answer \in Answers4
    /\ (pc = "http" /\ pc' = "ui") => cur'.held \in ResponsePairs4
    /\ last'.op = "get_access_token" => last'.arg = "V"
    /\ cur'.op = "get_access_token" => cur'.arg = "V"
    /\ \A i \in 1..Len(cur'.got) : cur'.got[i] = "V"
    /\ \A i \in 1..Len(last'.got) : last'.got[i] = "V"
    /\ (last'.op = "authorize" /\ last'.arg # <<>>) => last'.arg = SuppliedPair4
    /\ me = 2 => (cur'.op # "authorize" /\ last'.op # "authorize")

Next4 ==
    \/ authorize_pair /\ Inputs4
    \/ get_request_token /\ Inputs4
    \/ authorize /\ Inputs4
    \/ get_access_token /\ Inputs4
    \/ request_token_returns /\ Inputs4
    \/ access_token_returns /\ Inputs4
    \/ authorize_verifier_returns /\ Inputs4
    \/ switch_task

Spec4 == Init4 /\ [][Next4]_vars

-----------------------------------------------------------------------------
(* Claims *)

ExchangeOps == {"get_request_token", "get_access_token", "authorize"}

\* C1: in every reachable state the stored pair is both null or both
\* non-null, whatever calls were made and however they ended, a response that
\* lacks one of the two fields included.
C1_PairNeverHalfSet ==
    (cred.token = None) <=> (cred.token_secret = None)

\* C2: when get_request_token, get_access_token or authorize (full flow) is
\* answered with a non-2xx status, the call fails with PlurkNetworkError and
\* the stored pair equals the pair held before the call.
C2_Non2xxIsNetworkErrorAndKeepsPair ==
    (/\ last.op \in ExchangeOps
     /\ last.sent # <<>>
     /\ last.answer.raised = None
     /\ last.answer.status \notin 200..299)
    => (/\ last.exc = PlurkNetworkError
        /\ token_pair(cred) = token_pair(last.pre))

\* C3: get_verifier_url() called while token or token_secret is null or empty
\* fails with PlurkAuthorizationError, returns no URL and leaves the store as
\* it was, whatever the consumer key and secret are.
C3_VerifierUrlNeedsToken ==
    (/\ last.op = "get_verifier_url"
     /\ (~Truthy(last.pre.token) \/ ~Truthy(last.pre.token_secret)))
    => (/\ last.exc = PlurkAuthorizationError
        /\ last.value = None
        /\ cred = last.pre)

\* C3's case: the call was made with an empty token_secret beside a token, and
\* with the empty consumer key.
C3_Witness ==
    /\ last.op = "get_verifier_url"
    /\ Truthy(last.pre.token)
    /\ last.pre.token_secret = ""
    /\ last.pre.customer_key = ""
    /\ last.exc = PlurkAuthorizationError

\* C4: a get_request_token() that returned successfully, followed at once by
\* get_verifier_url(), makes get_verifier_url() return base_url +
\* "OAuth/authorize" + "?oauth_token=" + the stored token.
C4_RequestTokenThenVerifierUrl ==
    [][(/\ last.op = "get_request_token"
        /\ last.exc = None
        /\ last'.op = "get_verifier_url")
       => (/\ last'.exc = None
           /\ last'.value = url_text(base_url) \o "OAuth/authorize"
                            \o "?oauth_token=" \o cred.token)]_vars

\* C5: authorize((tok, sec)) sends no request, prompts nobody, and ends with
\* the stored pair equal to (tok, sec) and the consumer key and secret as they
\* were, from any prior token state.
C5_AuthorizePairIsOffline ==
    (last.op = "authorize" /\ last.arg # <<>>)
    => (/\ last.exc = None
        /\ last.sent = <<>>
        /\ last.asked = <<>>
        /\ token_pair(cred) = last.arg
        /\ cred.customer_key = last.pre.customer_key
        /\ cred.customer_secret = last.pre.customer_secret)

\* C5's case: a pair was supplied while another token was stored.
C5_Witness ==
    /\ last.op = "authorize"
    /\ last.arg = <<"T2", "S2">>
    /\ last.pre.token = "T1"
    /\ last.sent = <<>>
    /\ token_pair(cred) = <<"T2", "S2">>

\* An answer that carries the pair (t, s) in a format request() parses.
Carries(answer, t, s) ==
    \E ct \in {JSON, HTML} : answer = http_response(200, ct, dict_of(t, s))

\* C6: get_request_token() sends exactly one request, to the request-token
\* endpoint, with no data fields and a signer that holds no resource-owner key
\* or secret, whatever pair was stored before; when the response carries
\* (T1, S1) the store holds (T1, S1) afterwards.
C6_RequestTokenExchange ==
    /\ (pc = "http" /\ cur.op = "get_request_token")
       => (Len(cur.sent) = 1 /\ token_pair(cred) = <<None, None>>)
    /\ (last.op = "get_request_token")
       => (/\ Len(last.sent) = 1
           /\ last.sent[1].uri = base_url.origin \o base_url.dir \o "OAuth/request_token"
           /\ last.sent[1].http_method = "POST"
           /\ last.sent[1].body = EmptyDict
           /\ last.sent[1].signer.resource_owner_key = None
           /\ last.sent[1].signer.resource_owner_secret = None
           /\ last.sent[1].signer.verifier = None
           /\ \A t \in Tokens, s \in Secrets :
                Carries(last.answer, t, s)
                => (last.exc = None /\ token_pair(cred) = <<t, s>>))

\* C6's case: called while (T2, S2) was stored, answered with (T1, S1).
C6_Witness ==
    /\ last.op = "get_request_token"
    /\ token_pair(last.pre) = <<"T2", "S2">>
    /\ Carries(last.answer, "T1", "S1")
    /\ token_pair(cred) = <<"T1", "S1">>

\* C7: get_access_token(V) sends exactly one request, to the access-token
\* endpoint, with a signer that holds the pair stored at call time and V as
\* verifier, and a body without a "verifier" field; when the response carries
\* (T2, S2) the store holds (T2, S2) afterwards.
C7_AccessTokenExchange ==
    (last.op = "get_access_token")
    => (/\ Len(last.sent) = 1
        /\ last.sent[1].uri = base_url.origin \o base_url.dir \o "OAuth/access_token"
        /\ last.sent[1].http_method = "POST"
        /\ last.sent[1].signer.resource_owner_key = last.pre.token
        /\ last.sent[1].signer.resource_owner_secret = last.pre.token_secret
        /\ last.sent[1].signer.verifier = last.arg
        /\ "verifier" \notin DOMAIN last.sent[1].body
        /\ \A t \in Tokens, s \in Secrets :
             Carries(last.answer, t, s)
             => (last.exc = None /\ token_pair(cred) = <<t, s>>))

\* C7's case: called with "V" while the request token (T1, S1) was stored,
\* answered with (T2, S2).
C7_Witness ==
    /\ last.op = "get_access_token"
    /\ last.arg = "V"
    /\ token_pair(last.pre) = <<"T1", "S1">>
    /\ Carries(last.answer, "T2", "S2")
    /\ token_pair(cred) = <<"T2", "S2">>

\* C8: once get_access_token() has exchanged a request token and the flow is
\* AUTHORIZED, no later operation brings it back to REQUEST_TOKEN_OBTAINED or UNINITIALIZED;
\* a later get_request_token() neither clears nor replaces the access token.
C8_AuthorizedIsTerminal ==
    [][(/\ last.op = "get_access_token"
        /\ last.exc = None
        /\ Truthy(last.pre.token)
        /\ flow = AUTHORIZED)
       => (/\ flow' = AUTHORIZED
           /\ (pc' = "http" /\ cur'.op = "get_request_token")
              => token_pair(cred') = token_pair(cred))]_vars

\* C8 as amended: the flow leaves AUTHORIZED only when get_request_token()
\* starts (called directly or as the first leg of authorize() without a pair),
\* and that call clears the stored access token; while AUTHORIZED the stored
\* pair is otherwise written only by the return of a later get_access_token()
\* or by authorize(pair), so request(), get_verifier_url() and get_verifier()
\* leave it as it is.
C8_AuthorizedLeftOnlyByRequestToken ==
    [][/\ (flow = AUTHORIZED /\ flow' # AUTHORIZED)
          => (/\ pc = "idle"
              /\ cur'.leg = "request_token"
              /\ token_pair(cred') = <<None, None>>)
       /\ (flow = AUTHORIZED /\ token_pair(cred') # token_pair(cred))
          => (\/ (pc = "idle" /\ cur'.leg = "request_token")
              \/ (pc = "http" /\ cur.leg = "access_token")
              \/ (pc = "idle" /\ pc' = "idle" /\ last'.op = "authorize"))]_vars

\* C8's case: get_request_token() was called right after a successful
\* get_access_token() that stored (T2, S2), and the store is empty again.
C8_Witness ==
    /\ pc = "http"
    /\ cur.op = "get_request_token"
    /\ cur.after.op = "get_access_token"
    /\ cur.after.exc = None
    /\ token_pair(cur.pre) = <<"T2", "S2">>
    /\ token_pair(cred) = <<None, None>>
    /\ flow = UNINITIALIZED

\* C9: get_access_token(V) called while token and token_secret are both null
\* sends no request, fails with PlurkAuthorizationError and leaves the store
\* as it was.
C9_AccessTokenNeedsRequestToken ==
    /\ (pc = "http" /\ cur.op = "get_access_token")
       => ~(cur.pre.token = None /\ cur.pre.token_secret = None)
    /\ (last.op = "get_access_token"
        /\ last.pre.token = None /\ last.pre.token_secret = None)
       => (/\ last.exc = PlurkAuthorizationError
           /\ last.sent = <<>>
           /\ cred = last.pre)

TimedOps == {"request", "get_request_token", "get_access_token"}

\* An answer after which the call has what it needs: a parseable 200, carrying
\* a token pair when the call is a token exchange.
AnswersNormally(op, answer) ==
    IF op = "request"
    THEN answer \in Responses /\ answer.status = 200 /\ answer.content_type \in {JSON, HTML}
    ELSE \E t \in Tokens, s \in Secrets : Carries(answer, t, s)

\* C10: when the HTTP call of request(), get_request_token() or
\* get_access_token() times out, the call fails with PlurkNetworkError and the
\* stored pair equals the pair held before the call; the same step called again
\* succeeds when the server then answers normally.
C10_TimeoutIsNetworkErrorAndRetryable ==
    [][/\ (last'.op \in TimedOps /\ last'.answer.raised = "TimeoutError")
          => (/\ last'.exc = PlurkNetworkError
              /\ token_pair(cred') = token_pair(last'.pre))
       /\ (/\ pc = "http" /\ pc' = "idle"
           /\ cur.op \in TimedOps
           /\ cur.after.op = cur.op
           /\ cur.after.raised = "TimeoutError"
           /\ AnswersNormally(cur.op, last'.answer))
          => last'.exc = None]_vars

\* The call failed inside request(): in signing, in the transport, by the
\* status or by the content type of the response.
RequestFailed(call) ==
    call.sent = <<>> \/ request_result(call.answer).exc # None

\* C11: a get_access_token(V) that fails inside request() (HTTP failure,
\* signing failure, unsupported content type) leaves the stored pair as it was
\* when it was called; a get_access_token called next, with no
\* get_request_token in between, signs with that same pair and, when the
\* response carries a pair, returns with it stored and the flow AUTHORIZED.
C11_FailedAccessTokenKeepsRequestToken ==
    [][/\ (/\ last'.op = "get_access_token"
           /\ last'.exc # None
           /\ RequestFailed(last'))
          => (/\ token_pair(cred') = token_pair(last'.pre)
              /\ cred'.customer_key = last'.pre.customer_key
              /\ cred'.customer_secret = last'.pre.customer_secret
              /\ flow' = flow)
       /\ (/\ pc = "http" /\ pc' = "idle"
           /\ cur.op = "get_access_token"
           /\ cur.after.op = "get_access_token"
           /\ cur.after.exc \in {PlurkNetworkError, PlurkOAuthError}
           /\ flow = REQUEST_TOKEN_OBTAINED)
          => (/\ token_pair(cur.pre) = token_pair(cred)
              /\ cur.sent[1].signer.resource_owner_key = cred.token
              /\ cur.sent[1].signer.resource_owner_secret = cred.token_secret
              /\ \A t \in Tokens, s \in Secrets :
                   Carries(last'.answer, t, s)
                   => (/\ last'.exc = None
                       /\ token_pair(cred') = <<t, s>>
                       /\ flow' = AUTHORIZED))]_vars

\* C11's case: get_request_token stored (T1, S1), get_access_token then
\* failed on the content type of the response, and get_access_token has been
\* called again with (T1, S1) still stored.
C11_Witness ==
    /\ pc = "http"
    /\ cur.op = "get_access_token"
    /\ cur.after.op = "get_access_token"
    /\ cur.after.exc = PlurkOAuthError
    /\ cur.after.raised = None
    /\ flow = REQUEST_TOKEN_OBTAINED
    /\ token_pair(cred) = <<"T1", "S1">>
    /\ cur.sent[1].signer.resource_owner_key = "T1"

\* The three kinds of failure: PlurkOAuthError itself is the kind of a
\* failure that is neither a network nor an authorization failure.
TypedErrors == {PlurkNetworkError, PlurkAuthorizationError, PlurkOAuthError}

\* A response request() accepts and parses, without one of the two fields.
LacksField(answer) ==
    /\ request_result(answer).exc = None
    /\ ~({"oauth_token", "oauth_token_secret"} \subseteq DOMAIN request_result(answer).value)

\* C12: a request(), get_request_token() or get_access_token() that fails
\* raises one of the three typed errors; a get_request_token() or
\* get_access_token() whose response lacks oauth_token or oauth_token_secret
\* fails, and with one of the three typed errors.
C12_FailuresAreTyped ==
    /\ (last.op \in TimedOps /\ last.exc \notin {None, "CancelledError"})
       => last.exc \in TypedErrors
    /\ (/\ last.op \in {"get_request_token", "get_access_token"}
        /\ last.sent # <<>>
        /\ LacksField(last.answer))
       => last.exc \in TypedErrors

\* A direct request() call that got a response with a successful status.
RequestAnswered(call) ==
    /\ call.op = "request"
    /\ call.sent # <<>>
    /\ call.answer.raised = None
    /\ call.answer.status \in 200..299

\* C13: a request() answered with a successful status returns the parsed JSON
\* object when the content type is application/json, and the key/value pairs
\* of the body when it is text/html or application/x-www-form-urlencoded.
C13_MappingByContentType ==
    RequestAnswered(last)
    => (/\ last.answer.content_type = JSON
           => (last.exc = None /\ last.value = last.answer.body)
        /\ last.answer.content_type \in {HTML, FORM}
           => (last.exc = None /\ last.value = parse_qsl_dict(last.answer.body)))

\* C14: a request() answered with a successful status and a content type that
\* is neither JSON nor text/html nor form-urlencoded fails with
\* PlurkOAuthError itself, which is neither PlurkNetworkError nor
\* PlurkAuthorizationError; nothing is returned and the store is as it was.
C14_OtherContentTypeIsProtocolError ==
    (RequestAnswered(last) /\ last.answer.content_type \notin {JSON, HTML, FORM})
    => (/\ last.exc = PlurkOAuthError
        /\ last.exc \notin {PlurkNetworkError, PlurkAuthorizationError}
        /\ last.value = None
        /\ cred = last.pre)

\* C14's case: request() was answered 200 text/plain.
C14_Witness ==
    /\ RequestAnswered(last)
    /\ last.answer.status = 200
    /\ last.answer.content_type = PLAIN
    /\ last.exc = PlurkOAuthError
    /\ last.value = None

\* What the leg that ended a full authorize() raised, before authorize()'s own
\* handler: the error of request(), the KeyError of a missing field, the
\* PlurkAuthorizationError of get_verifier_url, or nothing.
LegRaised(call) ==
    IF call.answer.raised = "CancelledError" THEN "CancelledError"
    ELSE IF request_result(call.answer).exc # None THEN request_result(call.answer).exc
    ELSE IF LacksField(call.answer) THEN "KeyError"
    ELSE IF Len(call.sent) = 1 THEN PlurkAuthorizationError
    ELSE None

\* C20: a full authorize() that fails in a leg with PlurkNetworkError or
\* PlurkAuthorizationError raises that same error to its caller; one that
\* returns leaves the pair of the access-token response in the store.
C20_AuthorizeKeepsErrorKind ==
    (last.op = "authorize" /\ last.arg = <<>>)
    => (/\ LegRaised(last) \in {PlurkNetworkError, PlurkAuthorizationError}
           => last.exc = LegRaised(last)
        /\ last.exc = None
           => (/\ Len(last.sent) = 2
               /\ \E t \in Tokens, s \in Secrets :
                    /\ Carries(last.answer, t, s)
                    /\ token_pair(cred) = <<t, s>>))

\* How far a full authorize() has come: the requests it has sent, the prompts
\* it has made and the codes it has got back.
Stage(call) == <<Len(call.sent), Len(call.asked), Len(call.got)>>

InRequestTokenLeg == <<1, 0, 0>>
InVerifierWait == <<1, 1, 0>>
InAccessTokenLeg == <<2, 1, 1>>

\* What a full authorize() has done is in order, whatever its stage: the
\* first request is the request-token exchange, the prompt shows the URL of
\* the token the store holds since that exchange, and the second request is
\* the access-token exchange, signed with that pair and the code returned.
InOrder(call, base, held) ==
    /\ Stage(call) \in {InRequestTokenLeg, InVerifierWait, InAccessTokenLeg}
    /\ call.sent[1].uri = base.origin \o base.dir \o "OAuth/request_token"
    /\ call.sent[1].signer.resource_owner_key = None
    /\ Len(call.asked) = 1
       => (/\ Truthy(held[1]) /\ Truthy(held[2])
           /\ call.asked[1] = url_text(base) \o "OAuth/authorize"
                               \o "?oauth_token=" \o held[1])
    /\ Len(call.sent) = 2
       => (/\ call.sent[2].uri = base.origin \o base.dir \o "OAuth/access_token"
           /\ call.sent[2].signer.verifier = call.got[1]
           /\ call.sent[2].signer.resource_owner_key = held[1]
           /\ call.sent[2].signer.resource_owner_secret = held[2])

\* C15: a full authorize() does the request-token exchange, one prompt with
\* the URL of the request token just stored, and the access-token exchange
\* with the code the prompt returned, each once and in this order; it prompts
\* only with a request token stored, sends the access-token request only
\* after the code has come back, and does nothing more once a step has
\* failed; it returns only after all three.
C15_AuthorizeStepsInOrder ==
    [][/\ (cur'.op = "authorize")
          => (/\ InOrder(cur', base_url', cur'.held)
              /\ Stage(cur') = InRequestTokenLeg
                 => (pc' = "http" /\ cur.op = "none")
              /\ Stage(cur') = InVerifierWait
                 => (/\ pc' = "ui"
                     /\ Stage(cur) = InRequestTokenLeg
                     /\ flow' = REQUEST_TOKEN_OBTAINED
                     /\ cur'.held = token_pair(cred'))
              /\ Stage(cur') = InAccessTokenLeg
                 => (/\ pc' = "http"
                     /\ Stage(cur) = InVerifierWait
                     /\ token_pair(cred') = token_pair(cred)))
       /\ (pc # "idle" /\ pc' = "idle" /\ last'.op = "authorize")
          => (/\ cur.op = "authorize"
              /\ Stage(last') = Stage(cur)
              /\ last'.exc = None <=> (/\ Stage(last') = InAccessTokenLeg
                                        /\ flow' = AUTHORIZED))]_vars

\* C15's case: a full authorize() has returned: request token (T1, S1), one
\* prompt with the URL of T1, code "V", access token (T2, S2).
C15_Witness ==
    /\ last.op = "authorize"
    /\ last.arg = <<>>
    /\ last.exc = None
    /\ Stage(last) = InAccessTokenLeg
    /\ last.asked = <<url_text(base_url) \o "OAuth/authorize?oauth_token=T1">>
    /\ last.got = <<"V">>
    /\ last.sent[2].signer.resource_owner_key = "T1"
    /\ last.sent[2].signer.verifier = "V"
    /\ token_pair(cred) = <<"T2", "S2">>

\* C16: no step of a request() call changes any of the four fields of the
\* store, however the call ends (returned mapping, HTTP failure, signing
\* failure, rejected content type, failed open of a file); the consumer key
\* and secret never change; the token pair changes only in steps of
\* get_request_token, get_access_token and authorize.
C16_RequestLeavesStore ==
    [][/\ (cur.op = "request" \/ cur'.op = "request" \/ last'.op = "request")
          => cred' = cred
       /\ (last'.op = "request") => cred' = last'.pre
       /\ (cur'.op = "request") => cred' = cur'.pre
       /\ cred'.customer_key = cred.customer_key
       /\ cred'.customer_secret = cred.customer_secret
       /\ token_pair(cred') # token_pair(cred)
          => (\/ cur.op \in ExchangeOps
              \/ cur'.op \in ExchangeOps
              \/ (pc = "idle" /\ pc' = "idle" /\ last'.op = "authorize"))]_vars

\* C16's case: with (T1, S1) stored, a request() with a file and an endpoint
\* that cannot be signed has failed in signing, nothing sent.
C16_Witness ==
    /\ last.op = "request"
    /\ last.arg[1] = HostlessUrl
    /\ last.arg[3] # <<>>
    /\ last.sent = <<>>
    /\ last.exc = PlurkOAuthError
    /\ token_pair(last.pre) = <<"T1", "S1">>
    /\ token_pair(cred) = <<"T1", "S1">>

\* The step is the cancellation of a full authorize() in its verifier wait.
CancelInVerifierWait ==
    /\ pc = "ui"
    /\ cur.op = "authorize"
    /\ pc' = "idle"
    /\ last'.exc = "CancelledError"

\* The step handles the response of a token exchange, a response with a
\* successful status and a content type request() accepts.
ExchangeReturned ==
    /\ pc = "http"
    /\ cur.leg \in {"request_token", "access_token"}
    /\ pc' = "idle" => request_result(last'.answer).exc = None

\* The step is authorize(pair), which involves no exchange.
PairSupplied ==
    pc = "idle" /\ pc' = "idle" /\ last'.op = "authorize"

C19_HandlesClosedAtExit ==
    /\ pc = "idle" => cur.open = {}
    /\ last.op \in {"request", "sync_request"} => last.open = {}

\* The client that takes the next step, as a record like peer.
Me == [cred |-> cred, base_url |-> base_url, pc |-> pc, cur |-> cur,
       last |-> last, flow |-> flow]

\* The store holds the pair the client's own steps left in it: the one its
\* running call has cleared, kept or stored so far or, when no call is
\* running, the one its last call left.
OwnPair(c) ==
    token_pair(c.cred) = IF c.pc = "idle" THEN c.last.post ELSE c.cur.held

\* The pair a token exchange or a full authorize() leaves in the store when
\* the client runs alone, from the record of the call: the pair of the
\* response when the last exchange went through; else nothing when the call
\* ended in the request-token exchange, and the pair the access-token request
\* was signed with when it ended in the access-token exchange.
AloneResult(call) ==
    LET r == request_result(call.answer)
        n == Len(call.sent)
    IN  IF r.exc = None
        THEN <<r.value["oauth_token"], r.value["oauth_token_secret"]>>
        ELSE IF call.op = "get_access_token" \/ n = 2
        THEN <<call.sent[n].signer.resource_owner_key,
               call.sent[n].signer.resource_owner_secret>>
        ELSE <<None, None>>

\* A client whose last call was a token exchange or a full authorize() holds
\* what that call leaves when run alone; one cancelled in the verifier wait
\* holds the token its prompt showed.
FinalStore(c) ==
    (c.pc = "idle" /\ c.last.op \in ExchangeOps)
    => IF Stage(c.last) = InVerifierWait
       THEN /\ c.last.asked[1] = url_text(c.base_url) \o "OAuth/authorize"
                                 \o "?oauth_token=" \o c.cred.token
            /\ Truthy(c.cred.token_secret)
       ELSE token_pair(c.cred) = AloneResult(c.last)

\* C17: of two clients with their own stores, a step of one leaves the other
\* one's store, frame and records as they are, and handing the turn over
\* changes neither store; at every point each store holds the pair its own
\* client's steps left in it, and after a token exchange or authorize() the
\* pair that call leaves when its client runs alone.
C17_ClientsDoNotInterfere ==
    [][/\ me' = me => peer' = peer
       /\ me' # me => (cred' = peer.cred /\ peer'.cred = cred)
       /\ OwnPair(Me)' /\ OwnPair(peer)'
       /\ FinalStore(Me)' /\ FinalStore(peer)']_vars

\* C17's case: while the first client is suspended in the verifier wait of
\* authorize() with its request token (T1, S1) stored, the second one has run
\* get_request_token and get_access_token and holds (T2, S2).
C17_Witness ==
    /\ me = 2
    /\ last.op = "get_access_token"
    /\ last.exc = None
    /\ flow = AUTHORIZED
    /\ token_pair(cred) = <<"T2", "S2">>
    /\ peer.pc = "ui"
    /\ peer.cur.op = "authorize"
    /\ token_pair(peer.cred) = <<"T1", "S1">>

\* The URL has been printed once, after the banner and before any prompt.
PrintedOnce(call) ==
    /\ Len(call.asked) >= 3
    /\ call.asked[1] = Banner
    /\ call.asked[2] = call.arg
    /\ \A i \in 3..Len(call.asked) :
         call.asked[i] \in {CodePrompt, ConfirmPrompt, Reminder}

\* C21: the command-line get_verification_code(url) prints the URL once, then
\* goes through rounds of a prompt for the code and a prompt for the
\* confirmation; it returns only at the end of a round whose confirmation is
\* "y" in either case, and returns the code typed in that round; a round
\* confirmed with "n" or with anything else is followed by a new round.
C21_CliReturnsConfirmedCode ==
    [][/\ cur'.op = "get_verification_code" => PrintedOnce(cur')
       /\ (cur.op = "get_verification_code" /\ pc = "code")
          => (/\ pc' = "confirm"
              /\ Len(cur'.got) = Len(cur.got) + 1
              /\ cur'.asked = Append(cur.asked, ConfirmPrompt))
       /\ (cur.op = "get_verification_code" /\ pc = "confirm" /\ pc' = "idle")
          => (LET n == Len(last'.got)
              IN  /\ PrintedOnce(last')
                  /\ last'.exc = None
                  /\ n = Len(cur.got) + 1
                  /\ n % 2 = 0
                  /\ lower(last'.got[n]) = "y"
                  /\ last'.value = last'.got[n - 1]
                  /\ last'.value = cur.got[n - 1])
       /\ (cur.op = "get_verification_code" /\ pc = "confirm" /\ pc' # "idle")
          => (/\ pc' = "code"
              /\ Len(cur'.got) = Len(cur.got) + 1
              /\ cur'.asked[Len(cur'.asked)] = CodePrompt
              /\ UNCHANGED last)
       /\ (/\ cur.op = "get_verification_code" /\ pc = "confirm"
           /\ cur'.op = "get_verification_code"
           /\ lower(cur'.got[Len(cur'.got)]) # "y")
          => pc' = "code"]_vars

\* C21's case: a round confirmed with "n", then a round with the code "V"
\* confirmed with "Y": "V" is returned, the URL printed once.
C21_Witness ==
    /\ last.op = "get_verification_code"
    /\ last.got = <<"W", "n", "V", "Y">>
    /\ last.value = "V"
    /\ last.asked = <<Banner, last.arg, CodePrompt, ConfirmPrompt, CodePrompt,
                      ConfirmPrompt>>

\* C22: two tasks call get_request_token / get_access_token / authorize on one
\* credential store, interleaved at their awaits, and every response carries
\* both fields.  Whenever a task is suspended or between calls the stored
\* pair is (None, None), the pair supplied to authorize, or the pair of one
\* response: never the token of one response with the secret of another, or
\* with no secret.
C22_StoredPairIsOfOneResponse ==
    token_pair(cred) \in ({<<None, None>>, SuppliedPair4} \cup ResponsePairs4)

\* The first task is suspended in an access-token exchange it signed with the
\* pair of one response, and the second task's get_request_token has stored
\* the pair of another.
C22_Witness ==
    /\ me = 2
    /\ pc = "idle"
    /\ last.op = "get_request_token"
    /\ last.exc = None
    /\ token_pair(cred) = <<TokenNames[2], SecretNames[2]>>
    /\ peer.pc = "http"
    /\ peer.cur.op = "get_access_token"
    /\ peer.cur.held = <<TokenNames[1], SecretNames[1]>>

====
